---- MODULE Spec2Model ----
(***************************************************************************)
(* A model of app.py, the John Snow cholera map: one Streamlit script run  *)
(* (read the uploads, detect the latitude/longitude columns, diagnostics,  *)
(* manual flip, numeric normalisation, pump handling, rendering) and the   *)
(* reruns a widget interaction causes.                                     *)
(*                                                                         *)
(* Column headers are strings, modelled as tuples of one-character strings *)
(* so that lower(), strip() and substring containment are computed.        *)
(* Coordinates are integers in units of 1e-4 degree (the precision of the  *)
(* example dataset).  A fraction (the mean of a boolean Series) is a pair  *)
(* num/den, compared by cross-multiplication; den = 0 is the NaN that the  *)
(* mean of an empty Series gives, and every comparison with it is false.   *)
(***************************************************************************)
EXTENDS Integers, Sequences, FiniteSets, TLC

VARIABLES
    death_file,     \* the upload in the "Death CSV" widget
    pump_file,      \* the upload in the "Pump CSV" widget
    use_example,    \* st.sidebar.button("Load example sample") in this run
    flip_coords,    \* st.sidebar.checkbox("Flip coordinates ...")
    pc,             \* position of the script run
    df_death,       \* the deaths frame ([present |-> FALSE] is None)
    df_pump,        \* the pumps frame
    d_lat, d_lon,   \* the deaths assignment
    p_lat, p_lon,   \* the pumps assignment
    cand,           \* lat_candidates / lon_candidates of the latest find_latlon_cols call
    suspect_swap,   \* the hint of line 148
    msgs,           \* st.info / st.error / st.warning shown in this run
    death_markers,  \* locations of the CircleMarkers added to fg_deaths
    heat_data,      \* the HeatMap's points
    pump_markers,   \* locations of the Markers added to fg_pumps
    runs,           \* script runs started so far
    hist            \* per run, the assignment in force after the flip checkbox

vars == <<death_file, pump_file, use_example, flip_coords, pc, df_death, df_pump,
          d_lat, d_lon, p_lat, p_lon, cand, suspect_swap, msgs,
          death_markers, heat_data, pump_markers, runs, hist>>

(***************************************************************************)
(* Bounds of the model.                                                    *)
(***************************************************************************)
MaxCols == 3    \* longest header list explored by the detection specification
MaxRows == 2    \* most rows of an uploaded table in the pipeline specification
MaxRuns == 3    \* script runs (the first one and the reruns)

\* Most rows of a table in the detection specification: enough for a fraction
\* of exactly 3/5 to occur.
MaxFindRows == MaxRows + 3

(***************************************************************************)
(* Strings.                                                                *)
(***************************************************************************)
UpperChars == <<"A","B","C","D","E","F","G","H","I","J","K","L","M",
                "N","O","P","Q","R","S","T","U","V","W","X","Y","Z">>
LowerChars == <<"a","b","c","d","e","f","g","h","i","j","k","l","m",
                "n","o","p","q","r","s","t","u","v","w","x","y","z">>
Whitespace == {" ", "\t"}

LowerChar(ch) ==
    IF \E i \in 1..Len(UpperChars) : UpperChars[i] = ch
    THEN LowerChars[CHOOSE i \in 1..Len(UpperChars) : UpperChars[i] = ch]
    ELSE ch

\* str.lower()
lower(s) == [i \in 1..Len(s) |-> LowerChar(s[i])]

\* str.strip()
strip(s) ==
    LET nonws == {i \in 1..Len(s) : s[i] \notin Whitespace}
    IN  IF nonws = {} THEN <<>>
        ELSE SubSeq(s, CHOOSE i \in nonws : \A j \in nonws : i <= j,
                       CHOOSE i \in nonws : \A j \in nonws : j <= i)

\* sub in s
Contains(sub, s) ==
    \E i \in 1..(Len(s) - Len(sub) + 1) : SubSeq(s, i, i + Len(sub) - 1) = sub

\* Python None for a column name.  The code only tests a column name by
\* truthiness (lines 35-39, 116, 168, 236), where None and "" behave alike.
None == <<>>
Truthy(name) == name # <<>>

(***************************************************************************)
(* find_latlon_cols: the keyword sets and the two detection stages.        *)
(***************************************************************************)
LatNames ==
    { <<"l","a","t">>,
      <<"l","a","t","i","t","u","d","e">>,
      <<"y">>,
      <<"y","_","c","o","o","r","d">>,
      <<"y","c","o","o","r","d">>,
      <<"y"," ","c","o","o","r","d","i","n","a","t","e">>,
      <<"y","_","c","o","o","r","d","i","n","a","t","e">> }

LonNames ==
    { <<"l","o","n">>,
      <<"l","n","g">>,
      <<"l","o","n","g">>,
      <<"l","o","n","g","i","t","u","d","e">>,
      <<"x">>,
      <<"x","_","c","o","o","r","d">>,
      <<"x","c","o","o","r","d">>,
      <<"x"," ","c","o","o","r","d","i","n","a","t","e">>,
      <<"x","_","c","o","o","r","d","i","n","a","t","e">> }

LatSubstrings ==
    { <<"l","a","t">>,
      <<"y"," ","c","o","o","r","d","i","n","a","t","e">> }

LonSubstrings ==
    { <<"l","o","n">>,
      <<"l","n","g">>,
      <<"l","o","n","g">>,
      <<"x"," ","c","o","o","r","d","i","n","a","t","e">> }

\* cols_lower = [c.lower().strip() for c in df.columns]
cols_lower(columns) == [i \in 1..Len(columns) |-> strip(lower(columns[i]))]

ContainsAny(subs, c) == \E sub \in subs : Contains(sub, c)

\* The columns whose normalised header is one of names (lines 24, 26).
ExactMatches(columns, names) ==
    LET c == cols_lower(columns)
    IN  {i \in 1..Len(columns) : c[i] \in names}

\* The columns whose normalised header contains one of subs (lines 31, 33).
SubstringMatches(columns, subs) ==
    LET c == cols_lower(columns)
    IN  {i \in 1..Len(columns) : ContainsAny(subs, c[i])}

\* The original headers of the columns idx, in the order of the loop over df.columns.
InColumnOrder(columns, idx) ==
    LET sel == SelectSeq([i \in 1..Len(columns) |-> i], LAMBDA i : i \in idx)
    IN  [k \in 1..Len(sel) |-> columns[sel[k]]]

\* lines 21-31 with the fallback not guarded by "if not lat_candidates"
lat_candidates_ungated(columns) ==
    InColumnOrder(columns, ExactMatches(columns, LatNames)
                           \cup SubstringMatches(columns, LatSubstrings))

\* lines 21-25 and the fallback of lines 30-31
lat_candidates(columns) ==
    LET exact == ExactMatches(columns, LatNames)
    IN  IF exact = {}
        THEN InColumnOrder(columns, SubstringMatches(columns, LatSubstrings))
        ELSE InColumnOrder(columns, exact)

\* lines 22-27 and the fallback of lines 32-33
lon_candidates(columns) ==
    LET exact == ExactMatches(columns, LonNames)
    IN  IF exact = {}
        THEN InColumnOrder(columns, SubstringMatches(columns, LonSubstrings))
        ELSE InColumnOrder(columns, exact)

\* lat_candidates[0] if lat_candidates else None
FirstOrNone(cands) == IF cands = <<>> THEN None ELSE cands[1]

\* not lat and not lon
NotFoundBoth(lat, lon) == ~Truthy(lat) /\ ~Truthy(lon)

\* not lat or not lon (lines 116 and 168)
NotFound(lat, lon) == ~Truthy(lat) \/ ~Truthy(lon)

(***************************************************************************)
(* Cells and frames.  A raw cell is a number, a string that is a numeral   *)
(* ("numstr"), any other string ("text") or a missing value ("nan").       *)
(***************************************************************************)
NaN == [k |-> "nan", v |-> 0]
Num(n) == [k |-> "num", v |-> n]
NumStr(n) == [k |-> "numstr", v |-> n]
Text == [k |-> "text", v |-> 0]

\* degrees in the model's unit of 1e-4 degree
Deg(d) == d * 10000

\* pd.to_numeric(..., errors="coerce") on one cell
to_numeric(cell) ==
    IF cell.k \in {"num", "numstr"} THEN Num(cell.v) ELSE NaN

ColIndex(df, name) == CHOOSE i \in 1..Len(df.columns) : df.columns[i] = name

\* pd.to_numeric(df[name], errors="coerce")
NumericColumn(df, name) ==
    [r \in 1..Len(df.rows) |-> to_numeric(df.rows[r][ColIndex(df, name)])]

\* Series.dropna()
dropna(vals) == SelectSeq(vals, LAMBDA c : c.k # "nan")

\* Series.between(lo, hi).mean(): NaN cells are not between anything, and the
\* mean runs over every element of the Series.
BetweenMean(vals, lo, hi) ==
    [num |-> Cardinality({i \in 1..Len(vals) :
                            vals[i].k = "num" /\ lo <= vals[i].v /\ vals[i].v <= hi}),
     den |-> Len(vals)]

\* a < b on two means
FracLt(a, b) == a.den > 0 /\ b.den > 0 /\ a.num * b.den < b.num * a.den

\* the literal 0.6
Threshold == [num |-> 6, den |-> 10]

\* line 49 with <= and >= in place of < and >
SwapRuleNonStrict(lat_in_lat_range, lon_in_lat_range) ==
    \/ ~FracLt(Threshold, lat_in_lat_range) /\ ~FracLt(lon_in_lat_range, Threshold)
    \/ FracLt(lat_in_lat_range, lon_in_lat_range) /\ ~FracLt(lon_in_lat_range, Threshold)

\* line 49
SwapRule(lat_in_lat_range, lon_in_lat_range) ==
    \/ FracLt(lat_in_lat_range, Threshold) /\ FracLt(Threshold, lon_in_lat_range)
    \/ FracLt(lat_in_lat_range, lon_in_lat_range) /\ FracLt(Threshold, lon_in_lat_range)

\* lines 39-54 returning (None, None) when a column has no numeric value
ResolveNotFoundOnEmpty(df, lat, lon) ==
    IF Truthy(lat) /\ Truthy(lon)
    THEN LET lat_vals == dropna(NumericColumn(df, lat))
             lon_vals == dropna(NumericColumn(df, lon))
         IN  IF lat_vals = <<>> \/ lon_vals = <<>>
             THEN <<None, None>>
             ELSE IF SwapRule(BetweenMean(lat_vals, Deg(-90), Deg(90)),
                              BetweenMean(lon_vals, Deg(-90), Deg(90)))
                  THEN <<lon, lat>>
                  ELSE <<lat, lon>>
    ELSE <<lat, lon>>

\* lines 39-54, given the first candidates
Resolve(df, lat, lon) ==
    IF Truthy(lat) /\ Truthy(lon)
    THEN LET lat_vals == dropna(NumericColumn(df, lat))
             lon_vals == dropna(NumericColumn(df, lon))
         IN  IF lat_vals # <<>> /\ lon_vals # <<>>
                /\ SwapRule(BetweenMean(lat_vals, Deg(-90), Deg(90)),
                            BetweenMean(lon_vals, Deg(-90), Deg(90)))
             THEN <<lon, lat>>
             ELSE <<lat, lon>>
    ELSE <<lat, lon>>

\* find_latlon_cols(df): the returned pair, with the candidate lists it built
find_latlon_cols(df) ==
    LET lats == lat_candidates(df.columns)
        lons == lon_candidates(df.columns)
        res  == Resolve(df, FirstOrNone(lats), FirstOrNone(lons))
    IN  [lat |-> res[1], lon |-> res[2], cands |-> [lat |-> lats, lon |-> lons]]

(***************************************************************************)
(* Diagnostics (lines 129-150).                                            *)
(***************************************************************************)
RECURSIVE SumAbs(_)
SumAbs(vals) ==
    IF vals = <<>> THEN 0
    ELSE (IF Head(vals).v < 0 THEN -Head(vals).v ELSE Head(vals).v) + SumAbs(Tail(vals))

\* Series.abs().mean(): the mean skips NaN, and is NaN when nothing is left
AbsMean(vals) == [num |-> SumAbs(dropna(vals)), den |-> Len(dropna(vals))]

\* line 148, on the frame and the assignment in force at that line
SuspectSwap(df, lat, lon) ==
    LET dlat_vals   == NumericColumn(df, lat)
        dlon_vals   == NumericColumn(df, lon)
        frac_lat_ok == BetweenMean(dlat_vals, Deg(-90), Deg(90))
        frac_lon_ok == BetweenMean(dlon_vals, Deg(-180), Deg(180))
    IN  \/ FracLt(frac_lat_ok, Threshold) /\ FracLt(frac_lon_ok, Threshold)
        \/ /\ FracLt(AbsMean(dlon_vals), AbsMean(dlat_vals))
           /\ FracLt(Threshold, BetweenMean(dlon_vals, Deg(-90), Deg(90)))

(***************************************************************************)
(* Manual flip (lines 152-155) and normalisation (lines 157-160, 172-174). *)
(***************************************************************************)
\* d_lat = d_lon; d_lon = d_lat, one after the other
FlipAssignSequential(lat, lon, flip) == IF flip THEN <<lon, lon>> ELSE <<lat, lon>>

FlipAssign(lat, lon, flip) == IF flip THEN <<lon, lat>> ELSE <<lat, lon>>

\* df[name] = pd.to_numeric(df[name], errors="coerce")
CoerceColumn(df, name) ==
    [df EXCEPT !.rows =
        [r \in 1..Len(df.rows) |->
            [i \in 1..Len(df.columns) |->
                IF df.columns[i] = name THEN to_numeric(df.rows[r][i])
                                        ELSE df.rows[r][i]]]]

\* df.dropna(subset=[a])
DropNaFirstOnly(df, a, b) ==
    [df EXCEPT !.rows = SelectSeq(df.rows, LAMBDA row : row[ColIndex(df, a)].k # "nan")]

\* df.dropna(subset=[a, b])
DropNaSubset(df, a, b) ==
    [df EXCEPT !.rows =
        SelectSeq(df.rows, LAMBDA row : /\ row[ColIndex(df, a)].k # "nan"
                                        /\ row[ColIndex(df, b)].k # "nan")]

Normalise(df, lat, lon) ==
    DropNaSubset(CoerceColumn(CoerceColumn(df, lat), lon), lat, lon)

\* [r[lat], r[lon]] for every row of df
Locations(df, lat, lon) ==
    [r \in 1..Len(df.rows) |->
        <<df.rows[r][ColIndex(df, lat)].v, df.rows[r][ColIndex(df, lon)].v>>]

(***************************************************************************)
(* Uploads and frames.                                                     *)
(***************************************************************************)
NoFrame == [present |-> FALSE, columns |-> <<>>, rows |-> <<>>]
Frame(columns, rows) == [present |-> TRUE, columns |-> columns, rows |-> rows]

\* An upload: nothing, a CSV file, an Excel file, or a file neither reader accepts.
NoFile == [kind |-> "none", columns |-> <<>>, rows |-> <<>>]
BadFile == [kind |-> "bad", columns |-> <<>>, rows |-> <<>>]
CsvFile(columns, rows) == [kind |-> "csv", columns |-> columns, rows |-> rows]
XlsxFile(columns, rows) == [kind |-> "xlsx", columns |-> columns, rows |-> rows]

\* safe_read_csv: read_csv, then read_excel; the exception of the latter is re-raised
safe_read_csv(uploaded) ==
    IF uploaded.kind \in {"csv", "xlsx"}
    THEN [ok |-> TRUE, df |-> Frame(uploaded.columns, uploaded.rows)]
    ELSE [ok |-> FALSE, df |-> NoFrame]

\* lines 98-107 for one of the two uploads
LoadUpload(uploaded) ==
    IF uploaded.kind # "none" /\ safe_read_csv(uploaded).ok
    THEN safe_read_csv(uploaded).df
    ELSE NoFrame

ReadFailed(uploaded) == uploaded.kind # "none" /\ ~safe_read_csv(uploaded).ok

Msg(id) == [id |-> id, cols |-> <<>>]

H_id    == <<"i","d">>
H_lat   == <<"l","a","t">>
H_lon   == <<"l","o","n">>
H_notes == <<"n","o","t","e","s">>
H_pump_id == <<"p","u","m","p","_","i","d">>
H_name  == <<"n","a","m","e">>

\* lines 83-88
ExampleDeath ==
    Frame(<<H_id, H_lat, H_lon, H_notes>>,
          << <<Num(1), Num(515136), Num(-1372), Text>>,
             <<Num(2), Num(515141), Num(-1368), Text>>,
             <<Num(3), Num(515133), Num(-1358), Text>>,
             <<Num(4), Num(515126), Num(-1390), Text>>,
             <<Num(5), Num(515139), Num(-1370), Text>> >>)

\* lines 89-94
ExamplePump ==
    Frame(<<H_pump_id, H_lat, H_lon, H_name>>,
          << <<Num(1), Num(515136), Num(-1372), Text>>,
             <<Num(2), Num(515140), Num(-1360), Text>>,
             <<Num(3), Num(515125), Num(-1385), Text>> >>)

(***************************************************************************)
(* The uploads the model draws from.                                       *)
(***************************************************************************)
H_Lat_sp   == <<" ","L","a","t">>
H_Long_sp  == <<"L","o","n","g"," ">>
H_lat_deg  == <<"l","a","t","_","d","e","g">>
H_lng_2    == <<"l","n","g","_","2">>
H_latlong  == <<"l","a","t","l","o","n","g">>
H_Y        == <<"Y">>
H_Xcoord   == <<"X"," ","c","o","o","r","d","i","n","a","t","e">>

HeaderPool ==
    {H_id, H_lat, H_Lat_sp, H_lon, H_Long_sp, H_lat_deg, H_lng_2, H_latlong, H_Y, H_Xcoord}

\* Header lists of 1..n distinct headers (read_csv and read_excel make headers unique).
HeaderLists(n) ==
    UNION { {hs \in [1..m -> HeaderPool] : \A i, j \in 1..m : hs[i] = hs[j] => i = j}
            : m \in 1..n }

\* Every table of at most n rows under the given columns, with cells from the given set.
Rows(columns, n, cells) ==
    UNION { [1..m -> [1..Len(columns) -> cells]] : m \in 0..n }

InLat  == Num(Deg(50))      \* inside [-90, 90]
OutLat == Num(Deg(-120))    \* outside [-90, 90], inside [-180, 180]
OutLon == Num(Deg(200))     \* outside both ranges

CoordCells == {InLat, OutLat, Text}

\* One row whose cells alternate between the latitude range and outside it.
AlternatingRow(columns) ==
    [i \in 1..Len(columns) |-> IF i % 2 = 1 THEN InLat ELSE OutLat]

WideUploads ==
    {CsvFile(<<H_lat, H_lon>>, rows) : rows \in Rows(<<H_lat, H_lon>>, MaxRows, CoordCells)}

NarrowDeaths ==
    { NoFile,
      BadFile,
      XlsxFile(<<H_Y, H_Xcoord, H_notes>>, << <<InLat, OutLat, Text>>, <<NumStr(Deg(51)), OutLon, NaN>> >>),
      CsvFile(<<H_id, H_notes>>, << <<Num(1), Text>> >>),
      CsvFile(<<H_Lat_sp, H_notes>>, << <<InLat, Text>> >>),
      CsvFile(<<H_id, H_Long_sp>>, << <<Num(1), OutLat>> >>),
      CsvFile(<<H_lat, H_lon>>, << <<OutLon, OutLon>>, <<NaN, InLat>> >>) }

\* A deaths table that is resolved (by a swap) and keeps both rows.
GoodDeaths == CsvFile(<<H_lat, H_lon>>, << <<OutLat, InLat>>, <<OutLat, InLat>> >>)

NarrowPumps ==
    { NoFile,
      BadFile,
      XlsxFile(<<H_name, H_lng_2, H_lat_deg>>, << <<Text, OutLat, NumStr(Deg(51))>> >>),
      CsvFile(<<H_pump_id, H_lat>>, << <<Num(1), InLat>> >>) }

\* A column of n cells: k1 in the latitude range, then k2 outside it but in
\* the longitude range, then k3 outside both, then text.
BlockColumn(n, k1, k2, k3) ==
    [i \in 1..n |-> IF i <= k1 THEN InLat
                    ELSE IF i <= k1 + k2 THEN OutLat
                    ELSE IF i <= k1 + k2 + k3 THEN OutLon
                    ELSE Text]

BlockColumns(n) ==
    {BlockColumn(n, k1, k2, k3) : k1 \in 0..n, k2 \in 0..n, k3 \in 0..n}

\* The tables of 1..n rows under lat, lon with every combination of how many
\* cells of each kind each of the two columns holds (the lon column is laid
\* out in the opposite direction).
DeepRows(n) ==
    UNION { { [r \in 1..m |-> <<a[r], b[m + 1 - r]>>] :
                a \in BlockColumns(m), b \in BlockColumns(m) } : m \in 1..n }

DetectUploads ==
    {CsvFile(hs, <<AlternatingRow(hs)>>) : hs \in HeaderLists(MaxCols)}
    \cup {CsvFile(<<H_lat, H_lon>>, rows) : rows \in DeepRows(MaxFindRows)}

NoCands == [lat |-> <<>>, lon |-> <<>>]

\* What a run starts from: nothing computed, nothing shown.
FreshRun ==
    /\ df_death = NoFrame /\ df_pump = NoFrame
    /\ d_lat = None /\ d_lon = None /\ p_lat = None /\ p_lon = None
    /\ cand = NoCands
    /\ suspect_swap = FALSE
    /\ msgs = {}
    /\ death_markers = <<>> /\ heat_data = <<>> /\ pump_markers = <<>>

\* The page is opened with two uploads in place: the button is not pressed and
\* the checkbox has its default (value=False).
Init ==
    /\ \/ death_file \in WideUploads /\ pump_file \in NarrowPumps
       \/ death_file \in NarrowDeaths /\ pump_file \in NarrowPumps
       \/ death_file = GoodDeaths /\ pump_file \in WideUploads
    /\ use_example = FALSE
    /\ flip_coords = FALSE
    /\ pc = "start"
    /\ FreshRun
    /\ runs = 1
    /\ hist = <<>>

(***************************************************************************)
(* The script, top to bottom.                                              *)
(***************************************************************************)
\* lines 82-107
ReadFiles ==
    /\ pc = "start"
    /\ IF use_example
       THEN /\ df_death' = ExampleDeath
            /\ df_pump' = ExamplePump
            /\ msgs' = msgs
       ELSE /\ df_death' = LoadUpload(death_file)
            /\ df_pump' = LoadUpload(pump_file)
            /\ msgs' = msgs
                 \cup (IF ReadFailed(death_file) THEN {Msg("cannot_read_death")} ELSE {})
                 \cup (IF ReadFailed(pump_file) THEN {Msg("cannot_read_pump")} ELSE {})
    /\ pc' = "require"
    /\ UNCHANGED <<death_file, pump_file, use_example, flip_coords, d_lat, d_lon, p_lat,
                   p_lon, cand, suspect_swap, death_markers, heat_data, pump_markers,
                   runs, hist>>

\* df_death is None or df_pump is None
MissingRequiredEither(deaths, pumps) == ~deaths.present \/ ~pumps.present

\* df_death is None (line 110): only the deaths frame is required
MissingRequired(deaths, pumps) == ~deaths.present

\* lines 109-112
RequireDeath ==
    /\ pc = "require"
    /\ IF MissingRequired(df_death, df_pump)
       THEN /\ msgs' = msgs \cup {Msg("need_death")}
            /\ pc' = "stopped"
       ELSE /\ msgs' = msgs
            /\ pc' = "detect"
    /\ UNCHANGED <<death_file, pump_file, use_example, flip_coords, df_death, df_pump,
                   d_lat, d_lon, p_lat, p_lon, cand, suspect_swap, death_markers,
                   heat_data, pump_markers, runs, hist>>

\* lines 114-122
DetectDeath ==
    /\ pc = "detect"
    /\ \E found \in {find_latlon_cols(df_death)} :
           /\ d_lat' = found.lat
           /\ d_lon' = found.lon
           /\ cand' = found.cands
           /\ IF NotFound(found.lat, found.lon)
              THEN /\ msgs' = msgs \cup {[id |-> "death_columns_not_found",
                                          cols |-> df_death.columns]}
                   /\ pc' = "stopped"
              ELSE /\ msgs' = msgs
                   /\ pc' = "diag"
    /\ UNCHANGED <<death_file, pump_file, use_example, flip_coords, df_death, df_pump,
                   p_lat, p_lon, suspect_swap, death_markers, heat_data, pump_markers,
                   runs, hist>>

\* lines 124-150
Diagnostics ==
    /\ pc = "diag"
    /\ suspect_swap' = SuspectSwap(df_death, d_lat, d_lon)
    /\ msgs' = IF suspect_swap' THEN msgs \cup {Msg("suspect_swap")} ELSE msgs
    /\ pc' = "flip"
    /\ UNCHANGED <<death_file, pump_file, use_example, flip_coords, df_death, df_pump,
                   d_lat, d_lon, p_lat, p_lon, cand, death_markers, heat_data,
                   pump_markers, runs, hist>>

\* lines 152-155
FlipStep ==
    /\ pc = "flip"
    /\ d_lat' = FlipAssign(d_lat, d_lon, flip_coords)[1]
    /\ d_lon' = FlipAssign(d_lat, d_lon, flip_coords)[2]
    /\ hist' = Append(hist, [example |-> use_example, flip |-> flip_coords,
                             resolved |-> <<d_lat, d_lon>>,
                             lat |-> d_lat', lon |-> d_lon'])
    /\ pc' = "norm"
    /\ UNCHANGED <<death_file, pump_file, use_example, flip_coords, df_death, df_pump,
                   p_lat, p_lon, cand, suspect_swap, msgs, death_markers, heat_data,
                   pump_markers, runs>>

\* lines 157-163
NormaliseDeath ==
    /\ pc = "norm"
    /\ df_death' = Normalise(df_death, d_lat, d_lon)
    /\ IF df_death'.rows = <<>>
       THEN /\ msgs' = msgs \cup {Msg("no_valid_death_points")}
            /\ pc' = "stopped"
       ELSE /\ msgs' = msgs
            /\ pc' = "pumps"
    /\ UNCHANGED <<death_file, pump_file, use_example, flip_coords, df_pump, d_lat, d_lon,
                   p_lat, p_lon, cand, suspect_swap, death_markers, heat_data,
                   pump_markers, runs, hist>>

\* lines 175-176
SurvivingPumps(clean) == IF clean.rows = <<>> THEN NoFrame ELSE clean

\* lines 165-176
HandlePumps ==
    /\ pc = "pumps"
    /\ IF df_pump.present
       THEN \E found \in {find_latlon_cols(df_pump)} :
                /\ p_lat' = found.lat
                /\ p_lon' = found.lon
                /\ cand' = found.cands
                /\ IF NotFound(found.lat, found.lon)
                   THEN /\ msgs' = msgs \cup {Msg("pumps_ignored")}
                        /\ df_pump' = NoFrame
                   ELSE /\ msgs' = msgs
                        /\ df_pump' = SurvivingPumps(Normalise(df_pump, found.lat, found.lon))
       ELSE UNCHANGED <<p_lat, p_lon, cand, msgs, df_pump>>
    /\ pc' = "render"
    /\ UNCHANGED <<death_file, pump_file, use_example, flip_coords, df_death, d_lat, d_lon,
                   suspect_swap, death_markers, heat_data, pump_markers, runs, hist>>

\* lines 178-231
RenderDeaths ==
    /\ pc = "render"
    /\ death_markers' = Locations(df_death, d_lat, d_lon)
    /\ heat_data' = IF Len(df_death.rows) >= 2 THEN Locations(df_death, d_lat, d_lon)
                                               ELSE <<>>
    /\ pc' = "render_pumps"
    /\ UNCHANGED <<death_file, pump_file, use_example, flip_coords, df_death, df_pump,
                   d_lat, d_lon, p_lat, p_lon, cand, suspect_swap, msgs, pump_markers,
                   runs, hist>>

\* lines 233-276
RenderPumps ==
    /\ pc = "render_pumps"
    /\ IF df_pump.present
       THEN \E found \in {find_latlon_cols(df_pump)} :
                /\ p_lat' = found.lat
                /\ p_lon' = found.lon
                /\ cand' = found.cands
                /\ pump_markers' = IF Truthy(found.lat) /\ Truthy(found.lon)
                                   THEN Locations(df_pump, found.lat, found.lon)
                                   ELSE <<>>
       ELSE UNCHANGED <<p_lat, p_lon, cand, pump_markers>>
    /\ pc' = "done"
    /\ UNCHANGED <<death_file, pump_file, use_example, flip_coords, df_death, df_pump,
                   d_lat, d_lon, suspect_swap, msgs, death_markers, heat_data, runs, hist>>

(***************************************************************************)
(* Reruns.  Streamlit runs the script again from the top on every widget   *)
(* interaction; the uploads stay in their widgets, the button is True only *)
(* in the run its click causes, and a checkbox that the previous run did   *)
(* not reach is back at its default.                                       *)
(***************************************************************************)
Finished == pc \in {"done", "stopped"}

\* The previous run reached line 152.
CheckboxRendered ==
    pc = "done" \/ (pc = "stopped" /\ Msg("no_valid_death_points") \in msgs)

StartRun ==
    /\ runs < MaxRuns
    /\ runs' = runs + 1
    /\ pc' = "start"
    /\ df_death' = NoFrame /\ df_pump' = NoFrame
    /\ d_lat' = None /\ d_lon' = None /\ p_lat' = None /\ p_lon' = None
    /\ cand' = NoCands
    /\ suspect_swap' = FALSE
    /\ msgs' = {}
    /\ death_markers' = <<>> /\ heat_data' = <<>> /\ pump_markers' = <<>>
    /\ UNCHANGED <<death_file, pump_file, hist>>

\* the user ticks or unticks the checkbox of line 152
ToggleFlip ==
    /\ Finished
    /\ CheckboxRendered
    /\ flip_coords' = ~flip_coords
    /\ use_example' = FALSE
    /\ StartRun

\* the user clicks the button of line 79
ClickExample ==
    /\ Finished
    /\ use_example' = TRUE
    /\ flip_coords' = (CheckboxRendered /\ flip_coords)
    /\ StartRun

Next ==
    \/ ReadFiles
    \/ RequireDeath
    \/ DetectDeath
    \/ Diagnostics
    \/ FlipStep
    \/ NormaliseDeath
    \/ HandlePumps
    \/ RenderDeaths
    \/ RenderPumps
    \/ ToggleFlip
    \/ ClickExample

Spec == Init /\ [][Next]_vars

(***************************************************************************)
(* find_latlon_cols alone: the state at line 114 of a first run over a     *)
(* wider range of deaths tables, and the call of line 115.                 *)
(***************************************************************************)
InitFind ==
    /\ death_file \in DetectUploads
    /\ pump_file = NoFile
    /\ use_example = FALSE
    /\ flip_coords = FALSE
    /\ pc = "detect"
    /\ df_death = LoadUpload(death_file)
    /\ df_pump = NoFrame
    /\ d_lat = None /\ d_lon = None /\ p_lat = None /\ p_lon = None
    /\ cand = NoCands
    /\ suspect_swap = FALSE
    /\ msgs = {}
    /\ death_markers = <<>> /\ heat_data = <<>> /\ pump_markers = <<>>
    /\ runs = 1
    /\ hist = <<>>

NextFind == DetectDeath

SpecFind == InitFind /\ [][NextFind]_vars

(***************************************************************************)
(* Vocabulary of the properties.                                           *)
(***************************************************************************)
\* The tables this run reads (line 83, 89, 100, 105).
SourceDeath == IF use_example THEN ExampleDeath ELSE LoadUpload(death_file)
SourcePump  == IF use_example THEN ExamplePump ELSE LoadUpload(pump_file)

\* The trimmed, lower-cased form of every header the uploads use, written out.
ExpectedNormal(h) ==
    CASE h = H_Lat_sp  -> <<"l","a","t">>
      [] h = H_Long_sp -> <<"l","o","n","g">>
      [] h = H_Y       -> <<"y">>
      [] h = H_Xcoord  -> <<"x"," ","c","o","o","r","d","i","n","a","t","e">>
      [] OTHER         -> h

ExactIdx(columns, names) ==
    {i \in 1..Len(columns) : ExpectedNormal(columns[i]) \in names}
SubstrIdx(columns, subs) ==
    {i \in 1..Len(columns) : \E sub \in subs : Contains(sub, ExpectedNormal(columns[i]))}

\* The columns a role's candidate list must hold: the exact matches, or, when
\* there is none for that role, the substring matches.
RoleIdx(columns, names, subs) ==
    IF ExactIdx(columns, names) # {} THEN ExactIdx(columns, names)
                                     ELSE SubstrIdx(columns, subs)

\* cands lists exactly the columns idx, in column order.
ListsInOrder(cands, columns, idx) ==
    /\ Len(cands) = Cardinality(idx)
    /\ \A k \in 1..Len(cands) :
          \E i \in idx : /\ columns[i] = cands[k]
                         /\ Cardinality({j \in idx : j < i}) = k - 1

Coerces(cell) == cell.k \in {"num", "numstr"}
NumericRows(df, name) == {r \in 1..Len(df.rows) : Coerces(df.rows[r][ColIndex(df, name)])}
LatRangeRows(df, name) ==
    {r \in NumericRows(df, name) :
        /\ df.rows[r][ColIndex(df, name)].v >= -900000
        /\ df.rows[r][ColIndex(df, name)].v <= 900000}

\* The 0.6-threshold rule of the swap decision for columns lat and lon of df,
\* with the fractions taken over the numeric values of each column.
ThresholdRule(df, lat, lon) ==
    LET a  == Cardinality(LatRangeRows(df, lat))
        na == Cardinality(NumericRows(df, lat))
        b  == Cardinality(LatRangeRows(df, lon))
        nb == Cardinality(NumericRows(df, lon))
    IN  \/ 10 * a < 6 * na /\ 10 * b > 6 * nb
        \/ a * nb < b * na /\ 10 * b > 6 * nb

InRange(loc) ==
    /\ -900000 <= loc[1] /\ loc[1] <= 900000
    /\ -1800000 <= loc[2] /\ loc[2] <= 1800000

AllInRange(locs) == \A i \in 1..Len(locs) : InRange(locs[i])

\* The deaths detection of this run has been made and cand still holds its lists.
DeathDetected ==
    \/ pc \in {"diag", "flip", "norm", "pumps"}
    \/ pc = "stopped" /\ Msg("need_death") \notin msgs

AfterNormalise ==
    \/ pc \in {"pumps", "render", "render_pumps", "done"}
    \/ pc = "stopped" /\ Msg("no_valid_death_points") \in msgs

\* out is src with the rows kept in which both the lat cell and the lon cell
\* coerce to a number, in the original order, the two cells holding the numbers.
NormalisedFrom(out, src, lat, lon) ==
    LET li   == ColIndex(src, lat)
        lo   == ColIndex(src, lon)
        keep == {r \in 1..Len(src.rows) : Coerces(src.rows[r][li]) /\ Coerces(src.rows[r][lo])}
        bad  == {r \in 1..Len(src.rows) : ~Coerces(src.rows[r][li]) \/ ~Coerces(src.rows[r][lo])}
    IN  /\ out.columns = src.columns
        /\ Len(out.rows) = Cardinality(keep)
        /\ Len(src.rows) - Len(out.rows) = Cardinality(bad)
        /\ \A k \in 1..Len(out.rows) :
              \E r \in keep :
                 /\ Cardinality({q \in keep : q < r}) = k - 1
                 /\ \A c \in 1..Len(src.columns) :
                       IF c \in {li, lo}
                       THEN out.rows[k][c].k = "num" /\ out.rows[k][c].v = src.rows[r][c].v
                       ELSE out.rows[k][c] = src.rows[r][c]

(***************************************************************************)
(* C1.  Every location handed to rendering (death markers, heatmap, pump   *)
(* markers) has latitude in [-90, 90] and longitude in [-180, 180].        *)
(***************************************************************************)
C1_RenderedInRange ==
    AllInRange(death_markers) /\ AllInRange(heat_data) /\ AllInRange(pump_markers)

(***************************************************************************)
(* C2.  When both first candidates exist and each column has a numeric     *)
(* value, find_latlon_cols returns (lon0, lat0) if the 0.6-threshold rule  *)
(* on the two latitude-range fractions holds and (lat0, lon0) otherwise.   *)
(***************************************************************************)
C2_SwapDecision ==
    (/\ pc # "detect"
     /\ cand.lat # <<>> /\ cand.lon # <<>>
     /\ NumericRows(df_death, cand.lat[1]) # {}
     /\ NumericRows(df_death, cand.lon[1]) # {})
    => IF ThresholdRule(df_death, cand.lat[1], cand.lon[1])
       THEN <<d_lat, d_lon>> = <<cand.lon[1], cand.lat[1]>>
       ELSE <<d_lat, d_lon>> = <<cand.lat[1], cand.lon[1]>>

C2_Witness ==
    /\ pc = "diag"
    /\ <<d_lat, d_lon>> = <<H_lon, H_lat>>
    /\ Len(df_death.rows) = 5
    /\ Cardinality(NumericRows(df_death, H_lat)) = 3
    /\ Cardinality(NumericRows(df_death, H_lon)) = 4

(***************************************************************************)
(* C3.  After detection each role's candidate list holds, in column order, *)
(* exactly the columns whose trimmed lower-cased header is in the role's   *)
(* keyword set, or, only when that role has no such column, the columns    *)
(* whose header contains one of the role's substrings.                     *)
(***************************************************************************)
C3_Candidates ==
    pc # "detect" =>
        /\ ListsInOrder(cand.lat, df_death.columns,
                        RoleIdx(df_death.columns, LatNames, LatSubstrings))
        /\ ListsInOrder(cand.lon, df_death.columns,
                        RoleIdx(df_death.columns, LonNames, LonSubstrings))

C3_Witness ==
    /\ pc # "detect"
    /\ \E i \in 1..Len(df_death.columns) : df_death.columns[i] = H_lat_deg
    /\ cand.lat = <<H_Lat_sp>>
    /\ cand.lon = <<H_latlong>>

(***************************************************************************)
(* C4.  After normalisation the frame holds exactly the rows of the table  *)
(* read whose latitude and longitude cells both coerce to a number, in the *)
(* original order; the rows excluded are those with a non-numeric          *)
(* coordinate cell.                                                        *)
(***************************************************************************)
C4_NormalisedRows ==
    /\ AfterNormalise => NormalisedFrom(df_death, SourceDeath, d_lat, d_lon)
    /\ (pc \in {"render", "render_pumps", "done"} /\ df_pump.present)
          => NormalisedFrom(df_pump, SourcePump, p_lat, p_lon)

C4_Witness ==
    /\ pc = "pumps"
    /\ Len(SourceDeath.rows) = 2
    /\ Len(df_death.rows) = 1
    /\ df_death.rows[1] # SourceDeath.rows[2]

(***************************************************************************)
(* C5.  A table with no latitude header or no longitude header (exact or   *)
(* substring) is never normalised or rendered: the deaths run stops with   *)
(* an error listing all headers and no column for the missing role; the    *)
(* pump table is discarded.                                                *)
(***************************************************************************)
LacksRole(columns) ==
    \/ RoleIdx(columns, LatNames, LatSubstrings) = {}
    \/ RoleIdx(columns, LonNames, LonSubstrings) = {}

C5_MissingRoleIsNotFound ==
    /\ (SourceDeath.present /\ LacksRole(SourceDeath.columns)) =>
          /\ pc \notin {"diag", "flip", "norm", "pumps", "render", "render_pumps", "done"}
          /\ death_markers = <<>> /\ heat_data = <<>>
          /\ df_death \in {NoFrame, SourceDeath}
          /\ (pc = "stopped") =>
                /\ [id |-> "death_columns_not_found", cols |-> SourceDeath.columns] \in msgs
                /\ (RoleIdx(SourceDeath.columns, LatNames, LatSubstrings) = {}) => d_lat = None
                /\ (RoleIdx(SourceDeath.columns, LonNames, LonSubstrings) = {}) => d_lon = None
    /\ (SourcePump.present /\ LacksRole(SourcePump.columns)) =>
          /\ pump_markers = <<>>
          /\ (pc \in {"render", "render_pumps", "done"}) =>
                /\ df_pump = NoFrame
                /\ Msg("pumps_ignored") \in msgs
                /\ (RoleIdx(SourcePump.columns, LatNames, LatSubstrings) = {}) => p_lat = None
                /\ (RoleIdx(SourcePump.columns, LonNames, LonSubstrings) = {}) => p_lon = None

C5_Witness ==
    /\ pc = "stopped"
    /\ d_lat = H_Lat_sp
    /\ d_lon = None
    /\ [id |-> "death_columns_not_found", cols |-> <<H_Lat_sp, H_notes>>] \in msgs

(***************************************************************************)
(* C6 as claimed.  When both first candidates exist but one of the two     *)
(* columns has no numeric value, the resolver's result is NotFound.        *)
(***************************************************************************)
ZeroValid(df, lat0, lon0) == NumericRows(df, lat0) = {} \/ NumericRows(df, lon0) = {}

C6_ZeroValidIsNotFound ==
    (/\ DeathDetected
     /\ cand.lat # <<>> /\ cand.lon # <<>>
     /\ ZeroValid(SourceDeath, cand.lat[1], cand.lon[1]))
    => (d_lat = None /\ d_lon = None)

(***************************************************************************)
(* C6 as amended.  In that case find_latlon_cols returns the first         *)
(* candidates (lat0, lon0), unswapped; the deaths run then stops at        *)
(* normalisation with "no valid death points remain" and renders nothing,  *)
(* and a pump table is discarded.                                          *)
(***************************************************************************)
C6_ZeroValidKeepsNaivePair ==
    /\ (/\ pc \in {"diag", "flip"}
        /\ ZeroValid(SourceDeath, cand.lat[1], cand.lon[1]))
       => <<d_lat, d_lon>> = <<cand.lat[1], cand.lon[1]>>
    /\ (/\ DeathDetected
        /\ cand.lat # <<>> /\ cand.lon # <<>>
        /\ ZeroValid(SourceDeath, cand.lat[1], cand.lon[1]))
       => /\ pc # "pumps"
          /\ death_markers = <<>> /\ heat_data = <<>>
          /\ (pc = "stopped") => /\ Msg("no_valid_death_points") \in msgs
                                 /\ df_death.rows = <<>>
    /\ (pc \in {"pumps", "render", "render_pumps", "done"})
       => ~ZeroValid(SourceDeath, d_lat, d_lon)
    /\ (/\ pc = "render"
        /\ SourcePump.present
        /\ cand.lat # <<>> /\ cand.lon # <<>>
        /\ ZeroValid(SourcePump, cand.lat[1], cand.lon[1]))
       => /\ <<p_lat, p_lon>> = <<cand.lat[1], cand.lon[1]>>
          /\ df_pump = NoFrame

C6_Witness ==
    /\ pc = "stopped"
    /\ Msg("no_valid_death_points") \in msgs
    /\ Len(SourceDeath.rows) = 2
    /\ NumericRows(SourceDeath, H_lat) = {}
    /\ NumericRows(SourceDeath, H_lon) = {1, 2}
    /\ LatRangeRows(SourceDeath, H_lon) = {1, 2}
    /\ <<d_lat, d_lon>> = <<H_lat, H_lon>>

(***************************************************************************)
(* C7.  When the deaths table is read, has both roles and has a row with   *)
(* two numeric coordinates, the run is never stopped, the deaths layer is  *)
(* rendered, and a pump upload that cannot be read, lacks a role or has no *)
(* such row only leaves the pumps layer empty.                             *)
(***************************************************************************)
FirstIdx(idx) == CHOOSE i \in idx : \A j \in idx : i <= j

Usable(src) ==
    /\ src.present
    /\ ~LacksRole(src.columns)
    /\ \E r \in 1..Len(src.rows) :
          /\ Coerces(src.rows[r][FirstIdx(RoleIdx(src.columns, LatNames, LatSubstrings))])
          /\ Coerces(src.rows[r][FirstIdx(RoleIdx(src.columns, LonNames, LonSubstrings))])

C8_HintIsResolverRule ==
    (/\ pc = "flip"
     /\ NumericRows(df_death, d_lat) # {}
     /\ NumericRows(df_death, d_lon) # {})
    => (suspect_swap <=> ThresholdRule(df_death, d_lat, d_lon))

(***************************************************************************)
(* C9.  Over the runs on the same deaths table, the assignment after the   *)
(* checkbox is the resolver's pair when the checkbox is off and that pair  *)
(* with the roles exchanged when it is on: two runs with the same checkbox *)
(* value agree, and two runs with different values are each other's flip.  *)
(***************************************************************************)
C9_OverrideIsFunctionOfFlag ==
    /\ \A i \in 1..Len(hist) :
          <<hist[i].lat, hist[i].lon>> =
              IF hist[i].flip THEN <<hist[i].resolved[2], hist[i].resolved[1]>>
                              ELSE hist[i].resolved
    /\ \A i, j \in 1..Len(hist) :
          (hist[i].example = hist[j].example) =>
              IF hist[i].flip = hist[j].flip
              THEN hist[i].lat = hist[j].lat /\ hist[i].lon = hist[j].lon
              ELSE hist[i].lat = hist[j].lon /\ hist[i].lon = hist[j].lat

C9_Witness ==
    /\ Len(hist) = 3
    /\ \A i \in 1..3 : ~hist[i].example
    /\ ~hist[1].flip /\ hist[2].flip /\ ~hist[3].flip
    /\ hist[1].resolved = <<H_lon, H_lat>>
    /\ <<hist[2].lat, hist[2].lon>> = <<H_lat, H_lon>>
    /\ <<hist[3].lat, hist[3].lon>> = <<H_lon, H_lat>>

(***************************************************************************)
(* C10.  The pair of pump columns used to place the pump markers is the    *)
(* pair that was used to coerce and filter the pump rows: the rendering    *)
(* step leaves the pumps assignment as pump handling set it.               *)
(***************************************************************************)
C10_PumpAssignmentStable ==
    [][(pc = "render_pumps" /\ df_pump.present) => (p_lat' = p_lat /\ p_lon' = p_lon)]_vars

====
